---- MODULE Spec2Model ----
(***************************************************************************)
(* The CSP solver of src/Solver.py: the constraint store (variables,       *)
(* domains, directed table of legal value pairs), AC-3 (ac3_inference and  *)
(* revised) and the recursive backtracking search, as a state machine.     *)
(*                                                                         *)
(* Python lists are sequences, tuples are tuples, dictionaries are         *)
(* functions whose key order (Python keeps insertion order) is carried by  *)
(* `variables` for domains/assignments and by the order of the entries of  *)
(* constraints[i] for the inner dictionaries.  The recursion of backtrack  *)
(* is an explicit stack of frames; one step of the model is one API call   *)
(* of the store, one iteration of the while loop of ac3_inference, or one  *)
(* call / loop iteration / return of backtrack.                            *)
(***************************************************************************)
EXTENDS Integers, Sequences, FiniteSets, TLC

VARIABLES
    variables,    \* self.variables: names in registration order
    domains,      \* self.domains: name -> list of values
    constraints,  \* self.constraints: name -> ordered dict (name -> legal pairs)
    numCalls,     \* self.numCalls
    numFailures,  \* self.numFailures
    pc,           \* where the running backtracking_search is
    stack,        \* frames of the backtrack invocations in progress
    work,         \* the assignment ac3_inference is working on
    queue,        \* the worklist of the running ac3_inference
    verdict,      \* what the last ac3_inference returned
    result,       \* what the last backtrack / backtracking_search returned
    hist,         \* history: the <<i, j, predicate>> of every add_constraint_one_way
    groups,       \* history: the var_list of every add_all_different_constraint
    apiCalls,     \* history: number of constraint calls made by the builder
    searches,     \* history: number of backtracking_search calls started
    entry,        \* history: the solver's fields when the search started
    initial,      \* history: <<the assignment the initial AC-3 pass left>>
    tried,        \* history: candidates pinned so far by the running search
    found         \* history: depth of the backtrack call that found the result (0: none)

vars == <<variables, domains, constraints, numCalls, numFailures, pc, stack,
          work, queue, verdict, result, hist, groups, apiCalls, searches,
          entry, initial, tried, found>>

(***************************************************************************)
(* Bounds of the model.                                                    *)
(***************************************************************************)
\* the names a builder registers, in this order (names are opaque)
NameOrder == <<"A", "B", "C">>
Names == {NameOrder[k] : k \in 1..Len(NameOrder)}
\* the values of the domains
Values == {1, 2}
\* the domains a builder passes to add_variable
DomainChoices == {<<1>>, <<1, 2>>, <<2, 1>>}
\* the filter functions a builder passes to add_constraint_one_way: the
\* inequality of the repository's builders and an asymmetric one
Preds == {"neq", "lt"}
\* the var_lists a builder passes to add_all_different_constraint
GroupChoices == {<<"A", "B">>, <<"A", "C">>, <<"B", "C">>, <<"A", "B", "C">>}
\* constraint calls (add_constraint_one_way, add_all_different_constraint) per solver
MaxConstraintCalls == 2
\* backtracking_search calls per solver
MaxSearches == 1

\* the None backtrack returns ("no solution"); an assignment a is returned as <<a>>
None == <<>>
\* the None selectUnassignedVariableFrom returns when its loop ends
NoVariable == "None"

\* filter_function(x, y)
Holds(p, x, y) ==
    CASE p = "neq" -> x # y
      [] p = "lt"  -> x < y

Range(s) == {s[k] : k \in 1..Len(s)}

Registered == Range(variables)

(***************************************************************************)
(* The constraint store.                                                   *)
(***************************************************************************)
\* the keys of the dictionary constraints[i], in insertion order
Keys(i) == [k \in 1..Len(constraints[i]) |-> constraints[i][k][1]]

\* j in self.constraints[i]
HasConstraint(i, j) == i \in DOMAIN constraints /\ j \in Range(Keys(i))

\* self.constraints[i][j]; membership is all the solver asks of the list
Legal(i, j) ==
    LET k == CHOOSE k \in 1..Len(constraints[i]) : constraints[i][k][1] = j
    IN  constraints[i][k][2]

get_all_possible_pairs(a, b) == {<<a[m], b[n]>> : m \in 1..Len(a), n \in 1..Len(b)}

RECURSIVE Flatten(_)
Flatten(ss) == IF ss = <<>> THEN <<>> ELSE Head(ss) \o Flatten(Tail(ss))

\* [(i, j) for i in self.constraints for j in self.constraints[i]]
get_all_arcs ==
    Flatten([n \in 1..Len(variables) |->
        [k \in 1..Len(constraints[variables[n]]) |->
            <<variables[n], constraints[variables[n]][k][1]>>]])

\* [(i, var) for i in self.constraints[var]]
get_all_neighboring_arcs(var) ==
    [k \in 1..Len(constraints[var]) |-> <<constraints[var][k][1], var>>]

\* add_constraint_one_way that filters the whole product at every call
\* instead of the stored list
OneWayOverwrite(c, i, j, p) ==
    LET has   == \E k \in 1..Len(c[i]) : c[i][k][1] = j
        start == IF has THEN c[i] ELSE Append(c[i], <<j, {}>>)
    IN  [c EXCEPT ![i] =
            [k \in 1..Len(start) |->
                IF start[k][1] = j
                THEN <<j, {vp \in get_all_possible_pairs(domains[i], domains[j]) :
                             Holds(p, vp[1], vp[2])}>>
                ELSE start[k]]]

\* the table after add_constraint_one_way(i, j, p) on table c
OneWay(c, i, j, p) ==
    LET has   == \E k \in 1..Len(c[i]) : c[i][k][1] = j
        start == IF has THEN c[i]
                 ELSE Append(c[i], <<j, get_all_possible_pairs(domains[i], domains[j])>>)
    IN  [c EXCEPT ![i] =
            [k \in 1..Len(start) |->
                IF start[k][1] = j
                THEN <<j, {vp \in start[k][2] : Holds(p, vp[1], vp[2])}>>
                ELSE start[k]]]

\* the pairs of zip(var_list, var_list) instead of the product
OrderedPairsZip(var_list) ==
    [m \in 1..Len(var_list) |-> <<var_list[m], var_list[m]>>]

\* the (i, j) of get_all_possible_pairs(var_list, var_list), in product order
OrderedPairs(var_list) ==
    Flatten([m \in 1..Len(var_list) |->
        [n \in 1..Len(var_list) |-> <<var_list[m], var_list[n]>>]])

RECURSIVE AllDifferent(_, _)
AllDifferent(c, ps) ==
    IF ps = <<>> THEN c
    ELSE LET i == Head(ps)[1]
             j == Head(ps)[2]
         IN  AllDifferent(IF i # j THEN OneWay(c, i, j, "neq") ELSE c, Tail(ps))

\* the store is built once, before the first search, in the order the
\* repository's builders do it: the variables, then constraints between two
\* different registered variables
Building == pc = "idle"

Solver_init ==
    /\ variables = <<>>
    /\ domains = <<>>
    /\ constraints = <<>>
    /\ numCalls = 0
    /\ numFailures = 0

Init ==
    /\ Solver_init
    /\ pc = "idle"
    /\ stack = <<>>
    /\ work = <<>>
    /\ queue = <<>>
    /\ verdict = TRUE
    /\ result = None
    /\ hist = {}
    /\ groups = {}
    /\ apiCalls = 0
    /\ searches = 0
    /\ entry = <<>>
    /\ initial = <<>>
    /\ tried = 0
    /\ found = 0

\* what belongs to the search
search_vars == <<pc, stack, work, queue, verdict, result, searches, entry, initial, tried,
                 found>>

add_variable(name, domain) ==
    /\ Building
    /\ apiCalls = 0
    /\ Len(variables) < Len(NameOrder)
    /\ name = NameOrder[Len(variables) + 1]
    /\ variables' = Append(variables, name)
    /\ domains' = (name :> domain) @@ domains
    /\ constraints' = (name :> <<>>) @@ constraints
    /\ UNCHANGED <<numCalls, numFailures, hist, groups, apiCalls, search_vars>>

add_constraint_one_way(i, j, p) ==
    /\ Building
    /\ apiCalls < MaxConstraintCalls
    /\ i \in Registered
    /\ j \in Registered
    /\ i # j
    /\ constraints' = OneWay(constraints, i, j, p)
    /\ hist' = hist \cup {<<i, j, p>>}
    /\ apiCalls' = apiCalls + 1
    /\ UNCHANGED <<variables, domains, numCalls, numFailures, groups, search_vars>>

add_all_different_constraint(var_list) ==
    /\ Building
    /\ apiCalls < MaxConstraintCalls
    /\ Range(var_list) \subseteq Registered
    /\ constraints' = AllDifferent(constraints, OrderedPairs(var_list))
    /\ hist' = hist \cup {<<i, j, "neq">> : <<i, j>> \in
                            {ij \in Range(OrderedPairs(var_list)) : ij[1] # ij[2]}}
    /\ groups' = groups \cup {var_list}
    /\ apiCalls' = apiCalls + 1
    /\ UNCHANGED <<variables, domains, numCalls, numFailures, search_vars>>

(***************************************************************************)
(* AC-3.                                                                   *)
(***************************************************************************)
\* revised that stores the filtered list under Xj (assignment[Xj] = Di)
revisedWrongKey(assignment, Xi, Xj) ==
    LET constraints_Xi_Xj == Legal(Xi, Xj)
        Dj == assignment[Xj]
        satisfies(x) == \E n \in 1..Len(Dj) : <<x, Dj[n]>> \in constraints_Xi_Xj
        Di == SelectSeq(assignment[Xi], satisfies)
    IN  [revised    |-> Len(Di) # Len(assignment[Xi]),
         assignment |-> [assignment EXCEPT ![Xj] = Di]]

\* revised that looks for support in the registered domain of Xj
revisedAgainstOriginal(assignment, Xi, Xj) ==
    LET constraints_Xi_Xj == Legal(Xi, Xj)
        Dj == domains[Xj]
        satisfies(x) == \E n \in 1..Len(Dj) : <<x, Dj[n]>> \in constraints_Xi_Xj
        Di == SelectSeq(assignment[Xi], satisfies)
    IN  [revised    |-> Len(Di) # Len(assignment[Xi]),
         assignment |-> [assignment EXCEPT ![Xi] = Di]]

\* revised(assignment, Xi, Xj) on a registered arc: the value returned and
\* the assignment as the call leaves it
revised(assignment, Xi, Xj) ==
    LET constraints_Xi_Xj == Legal(Xi, Xj)
        Dj == assignment[Xj]
        satisfies(x) == \E n \in 1..Len(Dj) : <<x, Dj[n]>> \in constraints_Xi_Xj
        Di == SelectSeq(assignment[Xi], satisfies)
    IN  [revised    |-> Len(Di) # Len(assignment[Xi]),
         assignment |-> [assignment EXCEPT ![Xi] = Di]]

\* the arcs of Xi_neighbors that ac3_inference appends after revising (Xi, Xj)
NeighborsBut(Xi, Xj) ==
    LET keep(neighbor_arc) == Xj # neighbor_arc[1] /\ Xj # neighbor_arc[2]
    IN  SelectSeq(get_all_neighboring_arcs(Xi), keep)

\* one iteration of the while loop of ac3_inference on a non-empty worklist.
\* q.pop() takes the last arc; fifo = TRUE is the first-in-first-out worklist
\* the loop is compared with.  status: "loop" (go on), "True" / "False"
\* (returned), "KeyError" (raised by revised on an arc that is no key).
ac3_iteration(assignment, q, fifo) ==
    LET arc  == IF fifo THEN Head(q) ELSE q[Len(q)]
        rest == IF fifo THEN Tail(q) ELSE SubSeq(q, 1, Len(q) - 1)
        Xi   == arc[1]
        Xj   == arc[2]
    IN  IF ~HasConstraint(Xi, Xj)
        THEN [status |-> "KeyError", assignment |-> assignment, queue |-> rest]
        ELSE LET r == revised(assignment, Xi, Xj)
                 q2 == IF r.revised THEN rest \o NeighborsBut(Xi, Xj) ELSE rest
             IN  IF r.revised /\ Len(r.assignment[Xi]) = 0
                 THEN [status |-> "False", assignment |-> r.assignment, queue |-> rest]
                 ELSE [status |-> IF q2 = <<>> THEN "True" ELSE "loop",
                       assignment |-> r.assignment, queue |-> q2]

\* ac3_inference(assignment, q) run to its return
RECURSIVE ac3_run(_, _, _)
ac3_run(assignment, q, fifo) ==
    IF q = <<>> THEN [status |-> "True", assignment |-> assignment, queue |-> q]
    ELSE LET s == ac3_iteration(assignment, q, fifo)
         IN  IF s.status = "loop" THEN ac3_run(s.assignment, s.queue, fifo) ELSE s

(***************************************************************************)
(* Backtracking search.                                                    *)
(***************************************************************************)
\* hasCompletedThe with its test inverted (len(Di) == 1 returns False)
hasCompletedTheInverted(assignment) ==
    \A n \in 1..Len(variables) : Len(assignment[variables[n]]) # 1

hasCompletedThe(assignment) ==
    \A n \in 1..Len(variables) : Len(assignment[variables[n]]) = 1

\* a selection that returns the last variable with more than one value
selectLastUnassignedVariableFrom(assignment) ==
    LET open == {n \in 1..Len(variables) : Len(assignment[variables[n]]) > 1}
    IN  IF open = {} THEN NoVariable
        ELSE variables[CHOOSE n \in open : \A m \in open : n >= m]

\* the first variable, in the order of the dictionary, with more than one
\* value; None when the loop ends without a return
selectUnassignedVariableFrom(assignment) ==
    LET open == {n \in 1..Len(variables) : Len(assignment[variables[n]]) > 1}
    IN  IF open = {} THEN NoVariable
        ELSE variables[CHOOSE n \in open : \A m \in open : n <= m]

isConsistent(Xi, Di, assignment) == TRUE

\* where control is once ac3_inference was called with worklist q
AfterCall(q) == IF q = <<>> THEN "ac3_ret" ELSE "ac3"

store_vars == <<variables, domains, constraints, hist, groups, apiCalls>>

\* what no statement of the search assigns to
fixed_vars == <<variables, constraints, hist, groups, apiCalls>>

\* assignment = self.domains: the search works on the store's own dictionary
SearchSharesDomains == FALSE

\* line 154, copy.deepcopy(self.domains): the assignment of the search is an
\* object of its own, not self.domains
SearchCopiesDomains == TRUE

\* assignmentCopy = assignment: the branch works on the caller's dictionary
BranchSharesAssignment == FALSE

\* line 195, copy.deepcopy(assignment): assignmentCopy is an object of its
\* own, not the assignment the invocation received
BranchCopiesAssignment == TRUE

\* self.domains once a is written to the assignment ac3_inference works on
\* (assignment[Xi] = Di, line 254) or to assignmentCopy (line 196)
DomainsAfterWrite(a) ==
    IF ~SearchCopiesDomains /\ (stack = <<>> \/ ~BranchCopiesAssignment) THEN a ELSE domains

\* the assignments of the invocations in progress after the same write
StackAfterWrite(a) ==
    IF BranchCopiesAssignment THEN stack
    ELSE [k \in 1..Len(stack) |-> [stack[k] EXCEPT !.assignment = a]]

\* backtracking_search, up to the call of ac3_inference (lines 154-158)
backtracking_search ==
    /\ pc \in {"idle", "done"}
    /\ searches < MaxSearches
    /\ searches' = searches + 1
    /\ entry' = [numCalls |-> numCalls, numFailures |-> numFailures,
                 variables |-> variables, domains |-> domains,
                 constraints |-> constraints]
    /\ work' = domains
    /\ queue' = get_all_arcs
    /\ pc' = AfterCall(get_all_arcs)
    /\ verdict' = TRUE
    /\ stack' = <<>>
    /\ result' = None
    /\ initial' = <<>>
    /\ tried' = 0
    /\ found' = 0
    /\ UNCHANGED <<store_vars, numCalls, numFailures>>

\* one iteration of the while loop of ac3_inference
ac3_inference ==
    /\ pc = "ac3"
    /\ LET s == ac3_iteration(work, queue, FALSE)
       IN  /\ work' = s.assignment
           /\ queue' = s.queue
           /\ pc' = CASE s.status = "loop"     -> "ac3"
                      [] s.status = "KeyError" -> "error"
                      [] OTHER                 -> "ac3_ret"
           /\ verdict' = (s.status # "False")
           /\ domains' = DomainsAfterWrite(s.assignment)
           /\ stack' = StackAfterWrite(s.assignment)
    /\ UNCHANGED <<fixed_vars, numCalls, numFailures, result, searches,
                   entry, initial, tried, found>>

\* backtrack(assignment), lines 189-192: called by backtracking_search with
\* whatever the initial pass left (its return value is dropped, line 158), and by
\* backtrack itself when ac3_inference returned True (lines 197-198)
backtrack ==
    /\ pc = "ac3_ret"
    /\ stack = <<>> \/ verdict
    /\ numCalls' = numCalls + 1
    /\ initial' = IF stack = <<>> THEN <<work>> ELSE initial
    /\ IF hasCompletedThe(work)
       THEN /\ stack' = Append(stack, [assignment |-> work, Xi |-> NoVariable, idx |-> 0])
            /\ result' = <<work>>
            /\ found' = Len(stack) + 1
            /\ pc' = "return"
       ELSE LET Xi == selectUnassignedVariableFrom(work)
            IN  /\ stack' = Append(stack, [assignment |-> work, Xi |-> Xi, idx |-> 1])
                /\ result' = None
                /\ found' = found
                /\ pc' = IF Xi = NoVariable THEN "error" ELSE "loop"
    /\ UNCHANGED <<store_vars, numFailures, work, queue, verdict, searches, entry, tried>>

\* the frame on top of the stack
Top == stack[Len(stack)]

\* a for loop that takes the candidates from the last one to the first
backtrack_tryReversed ==
    /\ pc = "loop"
    /\ Top.idx <= Len(Top.assignment[Top.Xi])
    /\ LET Di == Top.assignment[Top.Xi][Len(Top.assignment[Top.Xi]) + 1 - Top.idx]
       IN  work' = [Top.assignment EXCEPT ![Top.Xi] = <<Di>>]
    /\ queue' = get_all_arcs
    /\ pc' = AfterCall(get_all_arcs)
    /\ verdict' = TRUE
    /\ tried' = tried + 1
    /\ UNCHANGED <<store_vars, stack, numCalls, numFailures, result, searches,
                   entry, initial, found>>

\* a branch that copies the assignment and does not pin the candidate
backtrack_tryUnpinned ==
    /\ pc = "loop"
    /\ Top.idx <= Len(Top.assignment[Top.Xi])
    /\ work' = Top.assignment
    /\ queue' = get_all_arcs
    /\ pc' = AfterCall(get_all_arcs)
    /\ verdict' = TRUE
    /\ tried' = tried + 1
    /\ UNCHANGED <<store_vars, stack, numCalls, numFailures, result, searches,
                   entry, initial, found>>

\* lines 193-197: the next candidate Di is pinned in a deep copy and
\* ac3_inference is called on the copy with all the arcs
backtrack_try ==
    /\ pc = "loop"
    /\ Top.idx <= Len(Top.assignment[Top.Xi])
    /\ LET Di == Top.assignment[Top.Xi][Top.idx]
           assignmentCopy == [Top.assignment EXCEPT ![Top.Xi] = <<Di>>]
       IN  /\ isConsistent(Top.Xi, Di, Top.assignment)
           /\ work' = assignmentCopy
           /\ domains' = DomainsAfterWrite(assignmentCopy)
           /\ stack' = StackAfterWrite(assignmentCopy)
    /\ queue' = get_all_arcs
    /\ pc' = AfterCall(get_all_arcs)
    /\ verdict' = TRUE
    /\ tried' = tried + 1
    /\ UNCHANGED <<fixed_vars, numCalls, numFailures, result, searches,
                   entry, initial, found>>

\* a for loop that counts a failure for each candidate AC-3 rejects
backtrack_skipCounted ==
    /\ pc = "ac3_ret"
    /\ stack # <<>>
    /\ ~verdict
    /\ stack' = [stack EXCEPT ![Len(stack)].idx = @ + 1]
    /\ numFailures' = numFailures + 1
    /\ pc' = "loop"
    /\ UNCHANGED <<store_vars, numCalls, work, queue, verdict, result,
                   searches, entry, initial, tried, found>>

\* line 197 when ac3_inference returned False: the copy is dropped and the
\* for loop goes to its next candidate
backtrack_skip ==
    /\ pc = "ac3_ret"
    /\ stack # <<>>
    /\ ~verdict
    /\ stack' = [stack EXCEPT ![Len(stack)].idx = @ + 1]
    /\ pc' = "loop"
    /\ UNCHANGED <<store_vars, numCalls, numFailures, work, queue, verdict, result,
                   searches, entry, initial, tried, found>>

\* backtrack that returns None without counting the failure
backtrack_failUncounted ==
    /\ pc = "loop"
    /\ Top.idx > Len(Top.assignment[Top.Xi])
    /\ result' = None
    /\ pc' = "return"
    /\ UNCHANGED <<store_vars, numCalls, numFailures, stack, work, queue, verdict,
                   searches, entry, initial, tried, found>>

\* lines 201-202: the for loop is over
backtrack_fail ==
    /\ pc = "loop"
    /\ Top.idx > Len(Top.assignment[Top.Xi])
    /\ numFailures' = numFailures + 1
    /\ result' = None
    /\ pc' = "return"
    /\ UNCHANGED <<store_vars, numCalls, stack, work, queue, verdict, searches,
                   entry, initial, tried, found>>

\* the invocation on top of the stack returns `result` to its caller:
\* backtracking_search returns it (line 161); backtrack returns it too when
\* it is not None (lines 199-200) and goes to its next candidate otherwise
backtrack_return ==
    /\ pc = "return"
    /\ stack' = IF Len(stack) > 1 /\ result = None
                THEN [SubSeq(stack, 1, Len(stack) - 1) EXCEPT ![Len(stack) - 1].idx = @ + 1]
                ELSE SubSeq(stack, 1, Len(stack) - 1)
    /\ pc' = CASE Len(stack) = 1 -> "done"
               [] result # None  -> "return"
               [] OTHER          -> "loop"
    /\ UNCHANGED <<store_vars, numCalls, numFailures, work, queue, verdict, result,
                   searches, entry, initial, tried, found>>

(***************************************************************************)
(* What the claims speak of.                                               *)
(***************************************************************************)
\* backtracking_search has returned `result`
Returned == pc = "done"

\* backtracking_search was left by an exception (KeyError)
Crashed == pc = "error"

\* the registered arcs
Arcs == Range(get_all_arcs)

\* every variable has exactly one value in assignment a
AllSingletons(a) == \A v \in Registered : Len(a[v]) = 1

\* the values of a satisfy every registered arc
SatisfiesArcs(a) ==
    \A arc \in Arcs : <<a[arc[1]][1], a[arc[2]][1]>> \in Legal(arc[1], arc[2])

\* one value per variable, from its original domain
Choices == {f \in [Registered -> Values] : \A v \in Registered : f[v] \in Range(domains[v])}

\* some choice satisfies every registered arc
Satisfiable ==
    \E f \in Choices : \A arc \in Arcs : <<f[arc[1]], f[arc[2]]>> \in Legal(arc[1], arc[2])

\* the predicates add_constraint_one_way was called with for (i, j)
Applied(i, j) == {p \in Preds : <<i, j, p>> \in hist}

\* C1: whenever backtracking_search returns an assignment, every domain in it
\* is a singleton and the values satisfy every registered arc.
C1_Soundness ==
    (Returned /\ result # None) =>
        (AllSingletons(result[1]) /\ SatisfiesArcs(result[1]))

\* C2: on a satisfiable CSP backtracking_search returns an assignment: it
\* neither returns None nor ends otherwise.
C2_Completeness ==
    ((Returned \/ Crashed) /\ Satisfiable) => (Returned /\ result # None)

\* C3: on an unsatisfiable CSP backtracking_search completes normally and
\* returns None: no assignment, no error.
C3_Unsatisfiable ==
    ((Returned \/ Crashed) /\ ~Satisfiable) => (Returned /\ result = None)

\* C4: when ac3_inference, seeded with all the arcs, has returned True, every
\* value left in the domain of Xi has a support in the domain of Xj, for
\* every registered arc (Xi, Xj).
C4_ArcConsistent ==
    (pc = "ac3_ret" /\ verdict) =>
        \A arc \in Arcs : \A m \in 1..Len(work[arc[1]]) :
            \E n \in 1..Len(work[arc[2]]) :
                <<work[arc[1]][m], work[arc[2]][n]>> \in Legal(arc[1], arc[2])

\* C5: on the same assignment and the same worklist (the arcs the solver
\* seeds it with), the last-in-first-out loop of ac3_inference and a
\* first-in-first-out loop end with the same verdict and, on True, with the
\* same domains.
C5_OrderIndependent ==
    (pc = "ac3" /\ queue = get_all_arcs) =>
        LET lifo == ac3_run(work, queue, FALSE)
            fifo == ac3_run(work, queue, TRUE)
        IN  /\ lifo.status = fifo.status
            /\ lifo.status = "True" => lifo.assignment = fifo.assignment

\* C6: in a returned assignment the values of two different variables of a
\* group registered by add_all_different_constraint differ.
C6_AllDifferent ==
    (Returned /\ result # None) =>
        \A g \in groups : \A m, n \in 1..Len(g) :
            g[m] # g[n] => result[1][g[m]][1] # result[1][g[n]][1]

\* C6 witness: an assignment was returned for a store with two overlapping
\* groups, or with a group one of whose arcs a further one-way constraint
\* narrowed
C6_Witness ==
    /\ Returned
    /\ result # None
    /\ \/ \E g, h \in groups : g # h /\ Range(g) \cap Range(h) # {}
       \/ \E g \in groups : \E i, j \in Range(g) : i # j /\ "lt" \in Applied(i, j)

\* C7: every assignment backtrack is invoked on (the frames of the stack)
\* has a non-empty domain for every variable.
C7_LiveNonEmpty ==
    \A k \in 1..Len(stack) : \A v \in Registered : Len(stack[k].assignment[v]) > 0

\* C8: get_all_neighboring_arcs(v) is exactly the arcs (k, v) with a
\* constraint from k to v in the table.
C8_NeighboringArcs ==
    \A v \in Registered :
        Range(get_all_neighboring_arcs(v)) =
            {<<k, v>> : k \in {k \in Registered : HasConstraint(k, v)}}

\* C9: the pairs stored for (i, j) are the pairs of the product of the two
\* original domains that satisfy every predicate add_constraint_one_way was
\* called with for (i, j), in whatever order the calls came, and calls for
\* other arcs, (j, i) among them, leave the entry alone.
C9_Intersection ==
    \A i, j \in Registered :
        IF Applied(i, j) = {} THEN ~HasConstraint(i, j)
        ELSE /\ HasConstraint(i, j)
             /\ Legal(i, j) =
                    {vp \in get_all_possible_pairs(domains[i], domains[j]) :
                        \A p \in Applied(i, j) : Holds(p, vp[1], vp[2])}

\* C9 witness: (i, j) was narrowed by two different predicates that both
\* reject and both accept a pair of the product, and (j, i) was not
C9_Witness ==
    \E i, j \in Registered :
        /\ Applied(i, j) = {"neq", "lt"}
        /\ Applied(j, i) = {}
        /\ Len(domains[i]) = 2
        /\ Len(domains[j]) = 2

\* C10: when the initial AC-3 pass leaves every domain a singleton,
\* backtracking_search returns that assignment after one invocation of
\* backtrack, with no failure counted and no candidate tried.
C10_NoBranching ==
    (Len(initial) = 1 /\ AllSingletons(initial[1])) =>
        /\ pc \in {"return", "done"}
        /\ result = initial
        /\ numCalls = entry.numCalls + 1
        /\ numFailures = entry.numFailures
        /\ tried = 0
        /\ Len(stack) <= 1

\* C10 witness: the search returned without branching on a store where the
\* initial pass had values to remove
C10_Witness ==
    /\ Returned
    /\ Len(initial) = 1
    /\ AllSingletons(initial[1])
    /\ \E v \in Registered : Len(domains[v]) > 1

\* C11: numCalls and numFailures are never negative and never decrease;
\* numCalls grows by one exactly in the steps that invoke backtrack (a frame
\* is pushed) and numFailures by one exactly in the steps in which an
\* invocation of backtrack returns None.
C11_Counters ==
    [][ /\ numCalls >= 0 /\ numFailures >= 0
        /\ numCalls' = IF Len(stack') = Len(stack) + 1 THEN numCalls + 1 ELSE numCalls
        /\ numFailures' = IF pc # "return" /\ pc' = "return" /\ result' = None
                          THEN numFailures + 1 ELSE numFailures ]_vars

\* C11 witness: a search that counted a failure and then returned an assignment
C11_Witness ==
    /\ Returned
    /\ result # None
    /\ numFailures >= 1
    /\ numCalls >= 3

\* the assignments of a running or finished search
Assignments ==
    {stack[k].assignment : k \in 1..Len(stack)} \cup Range(result) \cup
    (IF pc = "idle" THEN {} ELSE {work})

\* C12: in every assignment of the search each domain holds only values of
\* the original domain of its variable.
C12_DomainsShrink ==
    \A a \in Assignments : \A v \in Registered : Range(a[v]) \subseteq Range(domains[v])

\* C12 witness: an assignment returned after pinning and revising, for a store
\* in which AC-3 decided a variable the search never pinned
C12_Witness ==
    /\ Returned
    /\ result # None
    /\ tried = 1
    /\ Cardinality({v \in Registered : Len(domains[v]) = 2}) >= 2

\* C13: while backtracking_search runs and after it has returned or raised,
\* the registered variables, their original domains and the pairs allowed
\* on every arc are what they were when it was called.
C13_StoreReadOnly ==
    pc # "idle" =>
        /\ variables = entry.variables
        /\ domains = entry.domains
        /\ constraints = entry.constraints

\* C13 witness: a search returned None after pruning and pinning values of
\* two-valued domains
C13_Witness ==
    /\ Returned
    /\ result = None
    /\ tried >= 2
    /\ \E v \in Registered : Len(domains[v]) = 2

\* the smaller of two numbers
Min(a, b) == IF a <= b THEN a ELSE b

\* assignment a with variable v pinned to its n-th value
Pinned(a, v, n) == [u \in DOMAIN a |-> IF u = v THEN <<a[v][n]>> ELSE a[u]]

\* C14: no step changes the assignment an invocation of backtrack in
\* progress received, and the clone built for a candidate is that assignment
\* with only the selected variable pinned to the candidate.
C14_CopyOnBranch ==
    [][ /\ \A k \in 1..Min(Len(stack), Len(stack')) :
               stack'[k].assignment = stack[k].assignment
        /\ Len(stack') = Len(stack) + 1 => stack'[Len(stack')].assignment = work
        /\ tried' = tried + 1 =>
               work' = Pinned(stack[Len(stack)].assignment, stack[Len(stack)].Xi,
                              stack[Len(stack)].idx) ]_vars

\* C14 witness: the clone for the second candidate has just been built, after
\* the branch of the first candidate pruned another variable and failed
C14_Witness ==
    /\ pc = "ac3"
    /\ stack # <<>>
    /\ queue = get_all_arcs
    /\ Top.idx = 2
    /\ work = Pinned(Top.assignment, Top.Xi, 2)
    /\ \E v \in Registered : v # Top.Xi /\ Len(work[v]) = 2

\* u was registered before v
Earlier(u, v) ==
    \E m, n \in 1..Len(variables) : m < n /\ variables[m] = u /\ variables[n] = v

\* the variables of assignment a with more than one value
Undecided(a) == {v \in Registered : Len(a[v]) > 1}

\* frame f branches on the first undecided variable of its assignment, if
\* there is one
BranchesOnFirst(f) ==
    Undecided(f.assignment) # {} =>
        /\ f.Xi \in Undecided(f.assignment)
        /\ \A u \in Undecided(f.assignment) : ~Earlier(u, f.Xi)

\* C15: every invocation of backtrack on an incomplete assignment branches
\* on the first variable in registration order with more than one value; its
\* candidates are tried in the order of that domain (the first one first and
\* the next one only once the branch of the one before is over); and once a
\* call returned an assignment no candidate is tried, no AC-3 pass runs and
\* backtrack is not called again.
C15_StaticOrdering ==
    [][ /\ \A k \in 1..Len(stack') : BranchesOnFirst(stack'[k])
        /\ Len(stack') = Len(stack) + 1 /\ pc' = "loop" => stack'[Len(stack')].idx = 1
        /\ \A k \in 1..Min(Len(stack), Len(stack')) :
               /\ stack'[k].Xi = stack[k].Xi
               /\ stack'[k].idx \in {stack[k].idx, stack[k].idx + 1}
               /\ stack'[k].idx = stack[k].idx + 1 =>
                      /\ k = Len(stack')
                      /\ pc \in {"ac3_ret", "return"}
                      /\ result = None
        /\ tried' = tried + 1 =>
               /\ pc = "loop"
               /\ work'[Top.Xi] = <<Top.assignment[Top.Xi][Top.idx]>>
        /\ pc = "return" /\ result # None =>
               /\ tried' = tried
               /\ numCalls' = numCalls
               /\ result' = result
               /\ pc' \in {"return", "done"} ]_vars

\* C15 witness: an assignment was returned through two levels of recursion
\* after the first candidate of the first variable had failed
C15_Witness ==
    /\ pc = "return"
    /\ result # None
    /\ Len(stack) = 2
    /\ stack[1].idx = 2
    /\ stack[1].Xi = variables[1]
    /\ Cardinality(Undecided(stack[1].assignment)) >= 2

\* the arc ac3_inference takes next
Popped == queue[Len(queue)]

\* value x of Xi has a partner in list Dj on the registered arc (Xi, Xj)
Supported(x, Xi, Xj, Dj) == \E y \in Range(Dj) : <<x, y>> \in Legal(Xi, Xj)

\* sequence t is sequence s without some of its elements, order kept
RECURSIVE IsSubSeq(_, _)
IsSubSeq(t, s) ==
    IF t = <<>> THEN TRUE
    ELSE IF s = <<>> THEN FALSE
    ELSE IF Head(t) = Head(s) THEN IsSubSeq(Tail(t), Tail(s))
    ELSE IsSubSeq(t, Tail(s))

\* C16: when ac3_inference revises a registered arc (Xi, Xj), the domain of
\* Xi becomes its values that have a partner in the current domain of Xj, in
\* their previous order; revised returns True exactly when a value was
\* removed; the domains of all other variables stay as they were.
C16_Revise ==
    [][ pc = "ac3" /\ HasConstraint(Popped[1], Popped[2]) =>
            LET Xi == Popped[1]
                Xj == Popped[2]
            IN  /\ Range(work'[Xi]) =
                       {x \in Range(work[Xi]) : Supported(x, Xi, Xj, work[Xj])}
                /\ IsSubSeq(work'[Xi], work[Xi])
                /\ revised(work, Xi, Xj).revised <=> Len(work'[Xi]) < Len(work[Xi])
                /\ \A v \in Registered \ {Xi} : work'[v] = work[v] ]_vars

\* C16 witness: before any pin, a pass of AC-3 removed a value that has a
\* partner in the registered domain of every neighbour
C16_Witness ==
    /\ pc \in {"ac3", "ac3_ret"}
    /\ tried = 0
    /\ \E v \in Registered : \E x \in Range(domains[v]) \ Range(work[v]) :
           \A j \in Registered : HasConstraint(v, j) => Supported(x, v, j, domains[j])

\* C17: the assignment of every recursive invocation of backtrack has
\* strictly fewer undecided variables than the assignment of its caller, and
\* the invocations nested below the top-level one are never more than the
\* variables.
C17_BoundedDepth ==
    /\ \A k \in 2..Len(stack) :
           Cardinality(Undecided(stack[k].assignment)) <
               Cardinality(Undecided(stack[k - 1].assignment))
    /\ Len(stack) - 1 <= Len(variables)

\* C17 witness: two invocations nested below the top-level one
C17_Witness ==
    /\ Len(stack) = 3
    /\ Cardinality(Undecided(stack[1].assignment)) = 3

\* every registered arc has its reverse registered with the transposed pairs
Transposed ==
    \A arc \in Arcs :
        /\ HasConstraint(arc[2], arc[1])
        /\ Legal(arc[2], arc[1]) = {<<p[2], p[1]>> : p \in Legal(arc[1], arc[2])}

\* the choices that satisfy every registered arc
Solutions ==
    {f \in Choices : \A arc \in Arcs : <<f[arc[1]], f[arc[2]]>> \in Legal(arc[1], arc[2])}

\* the position of value x in the original domain of v
Position(v, x) == CHOOSE n \in 1..Len(domains[v]) : domains[v][n] = x

\* choice f comes before choice g: at the first registered variable where
\* they differ, the value of f stands earlier in the original domain
LexBefore(f, g) ==
    \E n \in 1..Len(variables) :
        /\ \A m \in 1..(n - 1) : f[variables[m]] = g[variables[m]]
        /\ Position(variables[n], f[variables[n]]) < Position(variables[n], g[variables[n]])

\* C18: on a store in which every registered arc has its reverse registered
\* with the transposed pairs, an assignment backtracking_search returns is the
\* least solution: a solution that comes before every other solution.
C18_FirstSolution ==
    Returned /\ result # None /\ Transposed =>
        /\ AllSingletons(result[1])
        /\ LET r == [v \in Registered |-> result[1][v][1]]
           IN  /\ r \in Solutions
               /\ \A f \in Solutions \ {r} : LexBefore(r, f)

\* C18 witness: a search with branching returned on a transposed store with
\* constraints and several solutions, with a value that is not the smallest
\* number of its domain
C18_Witness ==
    /\ Returned
    /\ result # None
    /\ Transposed
    /\ Arcs # {}
    /\ tried >= 2
    /\ Cardinality(Solutions) >= 2
    /\ \E v \in Registered : domains[v] = <<2, 1>> /\ result[1][v] = <<2>>

\* the number of values in the domains of the first n variables of a
RECURSIVE Size(_, _)
Size(a, n) == IF n = 0 THEN 0 ELSE Size(a, n - 1) + Len(a[variables[n]])

\* C19: ac3_inference, called with a worklist of registered arcs, returns
\* True or False after finitely many iterations: an iteration either returns
\* or goes on with the loop, and one that goes on has removed a value from a
\* domain or has a shorter worklist with the domains as they were.
C19_Terminates ==
    [][ pc = "ac3" =>
            /\ pc' \in {"ac3", "ac3_ret"}
            /\ \/ Size(work', Len(variables)) < Size(work, Len(variables))
               \/ /\ work' = work
                  /\ Len(queue') < Len(queue) ]_vars

\* every iteration of ac3_inference removes a value or shortens the worklist,
\* the one that raises KeyError included
C19_Progress ==
    [][ pc = "ac3" =>
            \/ Size(work', Len(variables)) < Size(work, Len(variables))
            \/ /\ work' = work
               /\ Len(queue') < Len(queue) ]_vars

\* C20: numFailures never exceeds numCalls; when the first search of a new
\* Solver has returned, the two are equal exactly when the result is None,
\* and when an assignment is returned their difference is the number of
\* invocations of backtrack from the top-level one down to the one that found
\* the assignment complete, which is at least 1.
C20_CounterRelation ==
    /\ numFailures <= numCalls
    /\ Returned /\ entry.numCalls = 0 /\ entry.numFailures = 0 =>
           /\ result = None <=> numFailures = numCalls
           /\ result # None => numCalls - numFailures = found /\ found >= 1

\* C20 witness: the first search returned an assignment found two levels
\* down, after invocations that failed
C20_Witness ==
    /\ Returned
    /\ entry.numCalls = 0
    /\ result # None
    /\ found >= 2
    /\ numFailures >= 1

Next ==
    \/ backtracking_search
    \/ ac3_inference
    \/ backtrack
    \/ backtrack_try
    \/ backtrack_skip
    \/ backtrack_fail
    \/ backtrack_return
    \/ \E d \in DomainChoices : \E n \in Names : add_variable(n, d)
    \/ \E i, j \in Names : \E p \in Preds : add_constraint_one_way(i, j, p)
    \/ \E g \in GroupChoices : add_all_different_constraint(g)

Spec == Init /\ [][Next]_vars
====
